---- MODULE Spec2Model ----
(***************************************************************************)
(* google-photos-backup: the resumable backup loop of src/src/index.ts.    *)
(*                                                                         *)
(* The file holds two variants of the program: the current one (lines      *)
(* 1-304, variant "ts") and its predecessor (lines 305-561, variant        *)
(* "legacy").  They differ in downloadPhoto's handling of a missing        *)
(* download path and of a failed move, and in the navigation click.  The   *)
(* variable `variant` selects the program a behaviour runs.                *)
(*                                                                         *)
(* The browser, the photo library behind it, exiftool and the filesystem   *)
(* are the environment: their answers are drawn with \E.                   *)
(***************************************************************************)
EXTENDS Integers, Sequences, FiniteSets, TLC

\* ---------------------------------------------------------------- bounds
\* Photos of the library, numbered 1 (oldest) .. NPhotos (latest).
NPhotos == 3
\* Values Math.floor(Math.random() * 1000000) is drawn from: 0 .. MaxRand-1.
MaxRand == 1

Photos == 1..NPhotos

\* ------------------------------------------------------------------ URLs
\* A URL of host photos.google.com is the sequence of its path segments:
\* https://photos.google.com/u/0/photo/p2 is <<"u", "0", "photo", "p2">>.
PhotoIds == <<"p1", "p2", "p3", "p4", "p5", "p6">>
\* Segments the pattern \d+ matches.
DigitStrings == {"0", "1", "2", "3", "12"}
\* The account-selector forms a photo URL comes in: "" is no /u/<n>/ segment.
UrlForms == {"", "0"}

Url(form, p) ==
    IF form = "" THEN <<"photo", PhotoIds[p]>>
    ELSE <<"u", form, "photo", PhotoIds[p]>>

\* The empty string / undefined: falsy in the code's tests.
NoUrl == <<>>
mainGooglePhotosUrl == <<>>
SignInUrl == <<"signin">>

\* clean as a pattern that never matches has it: the link is returned as is.
cleanNoMatch(link) == link

\* link.replace(/\/u\/\d+\//, '/'): the first "/u/<digits>/" becomes "/".
\* The match needs a "/" after the digits, so a segment follows them.
MatchAt(link, i) ==
    /\ i + 2 <= Len(link)
    /\ link[i] = "u"
    /\ link[i + 1] \in DigitStrings

clean(link) ==
    IF \E i \in 1..Len(link) : MatchAt(link, i)
    THEN LET i == CHOOSE k \in 1..Len(link) :
                    /\ MatchAt(link, k)
                    /\ \A j \in 1..(k - 1) : ~MatchAt(link, j)
         IN  [n \in 1..(Len(link) - 2) |->
                 IF n < i THEN link[n] ELSE link[n + 2]]
    ELSE link

\* The account-selector form of a photo URL.
FormOf(url) == IF Len(url) = 4 THEN url[2] ELSE ""

\* The photo a photo URL shows (the library's answer to a navigation).
PhotoOf(url) == CHOOSE p \in Photos : PhotoIds[p] = url[Len(url)]

\* ------------------------------------------------------- dates and names
\* new Date(text) of an unparsable text: getFullYear() and getMonth() are NaN.
NaN == -1

\* What exiftool.read reports as DateTimeOriginal.
NoMeta == [present |-> FALSE, year |-> 0, month |-> 0]
\* The aria-label's last dash-delimited segment, as regex.exec finds it.
NoMatch == [matched |-> FALSE, valid |-> FALSE, year |-> 0, month |-> 0]

\* A suggested filename: stem, the suffixes injected before the extension,
\* and the extension ("" when the name has none).
AJpg == [stem |-> "a", suf |-> <<>>, ext |-> ".jpg"]
BNoExt == [stem |-> "b", suf |-> <<>>, ext |-> ""]

\* What a photo of the library yields when downloaded: its suggested
\* filename, its embedded date and its page's caption.  One kind of photo
\* carries its date, the other has it only in the page.
Dated ==
    [name |-> AJpg, meta |-> [present |-> TRUE, year |-> 2020, month |-> 5],
     html |-> NoMatch]
Undated ==
    [name |-> BNoExt, meta |-> NoMeta,
     html |-> [matched |-> TRUE, valid |-> TRUE, year |-> 2020, month |-> 5]]
Profiles == {Dated, Undated}

\* The libraries: all photos of one kind, or the two kinds alternating.
Libraries ==
    {[p \in 1..NPhotos |-> first] : first \in Profiles}
        \cup {[p \in 1..NPhotos |-> IF p % 2 = 1 THEN first ELSE CHOOSE other \in Profiles : other # first] : first \in Profiles}

\* year = dateTimeOriginal?.year || 1970; month = dateTimeOriginal?.month || 1
MetaYear(meta) == IF meta.present /\ meta.year # 0 THEN meta.year ELSE 1970
MetaMonth(meta) == IF meta.present /\ meta.month # 0 THEN meta.month ELSE 1

\* new Date(lastMatch): getFullYear(), getMonth() + 1
ParsedYear(html) == IF html.valid THEN html.year ELSE NaN
ParsedMonth(html) == IF html.valid THEN html.month ELSE NaN

\* The html fallback is taken only for the sentinel (1970, 1).
UsesHtml(prof) == MetaYear(prof.meta) = 1970 /\ MetaMonth(prof.meta) = 1

ResolveYear(prof) ==
    IF UsesHtml(prof) /\ prof.html.matched THEN ParsedYear(prof.html)
    ELSE MetaYear(prof.meta)

ResolveMonth(prof) ==
    IF UsesHtml(prof) /\ prof.html.matched THEN ParsedMonth(prof.html)
    ELSE MetaMonth(prof.meta)

\* A path under photoDirectory: dir is <<>> (the root) or <<year, month>>.
destDir(flat, year, month, name) ==
    IF flat THEN [dir |-> <<>>, name |-> name]
    ELSE [dir |-> <<year, month>>, name |-> name]

\* suggestedFilename().replace(/(\.[\w\d_-]+)$/i, `_${randomNumber}$1`):
\* a name without an extension is left as it is.
Rename(name, randomNumber) ==
    IF name.ext # "" THEN [name EXCEPT !.suf = Append(@, randomNumber)]
    ELSE name

\* ----------------------------------------------------------------- state
VARIABLES
    \* the program and its command line (fixed over a behaviour)
    variant,                 \* "ts" (lines 1-304) or "legacy" (lines 305-561)
    flatDirectoryStructure,  \* --flat-directory-structure
    writeScrapedExif,        \* --write-scraped-exif
    initialPhotoUrl,         \* --initial-photo-url, NoUrl when not given
    \* the environment
    library,                 \* photo -> what its download yields
    lastdone,                \* <photoDirectory>/.lastdone: [exists, content]
    files,                   \* the destination tree: set of [dir, name, photo]
    \* the running process
    pc,                      \* position in start()
    startLink,
    latestPhoto,
    pageUrl,                 \* page.url()
    currentUrl,              \* the loop's currentUrl
    browser,                 \* "none", "open", "closed"
    exiftoolEnded,           \* exiftool.end() was called
    exitCode,                \* -1 while running or killed
    \* history
    downloads,               \* number of downloadPhoto calls of this launch
    lastDl,                  \* the latest downloadPhoto call of this launch
    saves,                   \* number of saveProgress calls of this launch
    clickedHidden,           \* the click in flight hit an invisible element
    pending,                 \* photo the previous launch placed but was
                             \* killed before saving, 0 when none
    \* a function of the program applied on its own (SpecDate, SpecClean)
    probe,                   \* its input
    result                   \* its output, result.done once applied

\* What no step of start() changes.
cfgVars == <<variant, flatDirectoryStructure, writeScrapedExif,
             initialPhotoUrl, library, probe, result>>
vars == <<variant, flatDirectoryStructure, writeScrapedExif, initialPhotoUrl,
          library, lastdone, files, pc, startLink, latestPhoto, pageUrl,
          currentUrl, browser, exiftoolEnded, exitCode, downloads,
          lastDl, saves, clickedHidden, pending, probe, result>>


Running == {"start", "launch", "latest", "goto", "first", "loop", "click",
            "wait", "download", "save", "cleanup"}

\* Does a file exist at path?
pathExists(path) ==
    \E f \in files : f.dir = path.dir /\ f.name = path.name

\* The destination tree after a successful rename of the asset to path.
Moved(path, photo) ==
    {f \in files : ~(f.dir = path.dir /\ f.name = path.name)}
        \cup {[dir |-> path.dir, name |-> path.name, photo |-> photo]}

\* ------------------------------------------------------------ process end
\* Exit as process.exit() without a code would behave: the code is 0.
ExitCodeDropped(code, withCleanup) ==
    /\ pc' = "exited"
    /\ exitCode' = 0
    /\ browser' = IF withCleanup THEN "closed" ELSE browser
    /\ exiftoolEnded' = (withCleanup \/ exiftoolEnded)
    /\ pending' = 0

\* process.exit(code), after cleanup() when the path calls it; an uncaught
\* rejection of start() ends the process the same way, with code 1.  After
\* cleanup() on the normal path start() returns and the code is 0.
Exit(code, withCleanup) ==
    /\ pc' = "exited"
    /\ exitCode' = code
    /\ browser' = IF withCleanup THEN "closed" ELSE browser
    /\ exiftoolEnded' = (withCleanup \/ exiftoolEnded)
    /\ pending' = 0

Continue(next) ==
    /\ pc' = next
    /\ UNCHANGED <<exitCode, browser, exiftoolEnded, pending>>

\* ---------------------------------------------------------- downloadPhoto
\* What the environment does to one downloadPhoto call:
\*   "nopath"   download.path() yields no path
\*   "exiferr"  exiftool.write rejects (only when it is called)
\*   "moveerr"  the first moveFile fails on an I/O error, a retry would work
\*   "moveerr2" every moveFile fails on an I/O error
\*   "ok"       nothing fails
DlEvents == {"ok", "nopath", "exiferr", "moveerr", "moveerr2"}

\* The record of one downloadPhoto call.
\*   photo, overwrite, flat  the call's photo and arguments
\*   path       the destination it computed (destDir)
\*   collided   overwrite was false and a file was at path
\*   metaRead   exiftool.read read the downloaded file's metadata
\*   exifWrite  exiftool.write was called
\*   moved, at  the asset was moved, and where to
\*   replaced   the photo of the file the move replaced, 0 when none
\*   failure    what failed in the call: "none", "nopath" (no download path),
\*              "exifwrite" (exiftool.write rejected), "move" (moveFile threw)
DlRecord(photo, overwrite, flat, path, collided, metaRead, exifWrite, moved, at, replaced, failure) ==
    [photo |-> photo, overwrite |-> overwrite, flat |-> flat, path |-> path,
     collided |-> collided, metaRead |-> metaRead, exifWrite |-> exifWrite,
     moved |-> moved, at |-> at, replaced |-> replaced, failure |-> failure]

NoDl == DlRecord(0, FALSE, FALSE, [dir |-> <<>>, name |-> AJpg], FALSE, FALSE,
               FALSE, FALSE, [dir |-> <<>>, name |-> AJpg], 0, "none")

\* A missing download path handled as the failed move is: logged, and the
\* caller goes on.
noTempPathLogged(next) == Continue(next)

\* ts lines 223-226: if (!tempPath) process.exit(1).  legacy lines 464-468
\* have no such test: exiftool.read(undefined) rejects on its argument before
\* it reads anything, and the rejection is uncaught.
noTempPath(next) == Exit(1, FALSE)

\* The photo of the file at path, 0 when there is none.
PhotoAt(path) ==
    IF pathExists(path)
    THEN (CHOOSE f \in files : f.dir = path.dir /\ f.name = path.name).photo
    ELSE 0

\* moveFile(source, destination, {overwrite}) of @npmcli/fs and of move-file:
\* throws when overwrite is false and the destination exists, else renames
\* the source over the destination.  overwrite defaults to true.
MoveThrows(path, overwrite, ioError) ==
    ioError \/ (~overwrite /\ pathExists(path))

\* downloadPhoto(page, {photoDirectory, overwrite, writeScrapedExif,
\* flatDirectoryStructure}) followed by `next`, the caller's next position.
downloadPhoto(overwrite, wse, flat, next) ==
    \E ev \in DlEvents, randomNumber \in 0..(MaxRand - 1) :
        LET photo == PhotoOf(pageUrl)
            prof == library[photo]
            year == ResolveYear(prof)
            month == ResolveMonth(prof)
            scraped == UsesHtml(prof) /\ prof.html.matched
            exifWrite == scraped /\ wse
            path == destDir(flat, year, month, prof.name)
            throws1 == MoveThrows(path, overwrite, ev \in {"moveerr", "moveerr2"})
            \* legacy retry: `${photoDirectory}/${year}/${month}/${fileName}`,
            \* moveFile without options
            path2 == [dir |-> <<year, month>>,
                      name |-> Rename(prof.name, randomNumber)]
            throws2 == MoveThrows(path2, TRUE, ev = "moveerr2")
            rec(metaRead, exifWritten, moved, at, replaced, failure) ==
                DlRecord(photo, overwrite, flat, path,
                         ~overwrite /\ pathExists(path), metaRead,
                         exifWritten, moved, at, replaced, failure)
        IN
        /\ downloads' = downloads + 1
        /\ IF ev = "nopath" THEN
               /\ lastDl' = rec(FALSE, FALSE, FALSE, path, 0, "nopath")
               /\ noTempPath(next)
               /\ UNCHANGED files
           ELSE IF ev = "exiferr" /\ exifWrite THEN
               \* await exiftool.write(...) rejects outside any try
               /\ lastDl' = rec(TRUE, exifWrite, FALSE, path, 0, "exifwrite")
               /\ Exit(1, FALSE)
               /\ UNCHANGED files
           ELSE IF ~throws1 THEN
               /\ files' = Moved(path, photo)
               /\ lastDl' = rec(TRUE, exifWrite, TRUE, path, PhotoAt(path), "none")
               /\ Continue(next)
           ELSE IF variant = "ts" THEN
               \* catch: console.log only
               /\ lastDl' = rec(TRUE, exifWrite, FALSE, path, 0, "move")
               /\ Continue(next)
               /\ UNCHANGED files
           ELSE IF ~throws2 THEN
               /\ files' = Moved(path2, photo)
               /\ lastDl' = rec(TRUE, exifWrite, TRUE, path2, PhotoAt(path2), "move")
               /\ Continue(next)
           ELSE
               \* the retry rejects inside the catch block
               /\ lastDl' = rec(TRUE, exifWrite, FALSE, path, 0, "move")
               /\ Exit(1, FALSE)
               /\ UNCHANGED files

\* ----------------------------------------------------------------- start
\* What document.getElementsByClassName('SxgK2b OQEhnd') finds: for each
\* element, whether its offsetParent is not null (it is visible).
ElementLists == {<<>>, <<FALSE>>, <<TRUE>>, <<FALSE, TRUE>>}

\* getProgress that throws on a missing file only: an empty one is read.
getProgressThrowsIfMissing == ~lastdone.exists

\* getProgress: readFile throws on a missing file, "empty file" on "".
getProgressThrows == ~lastdone.exists \/ lastdone.content = NoUrl

\* saveProgress called with the loop's currentUrl, the URL before the click.
saveProgressCurrentUrl(url) == lastdone' = [exists |-> TRUE, content |-> currentUrl]

\* saveProgress(photoDirectory, url)
saveProgress(url) == lastdone' = [exists |-> TRUE, content |-> url]

\* lines 60-73: load the checkpoint, or seed it from --initial-photo-url.
LoadCheckpoint ==
    /\ pc = "start"
    /\ IF ~getProgressThrows THEN
           /\ startLink' = lastdone.content
           /\ Continue("launch")
           /\ UNCHANGED lastdone
       ELSE IF initialPhotoUrl # NoUrl THEN
           /\ saveProgress(initialPhotoUrl)
           /\ startLink' = initialPhotoUrl
           /\ Continue("launch")
       ELSE
           /\ Exit(1, FALSE)
           /\ UNCHANGED <<lastdone, startLink>>
    /\ UNCHANGED <<cfgVars, files, latestPhoto, pageUrl, currentUrl, downloads,
                   lastDl, saves, clickedHidden>>

\* lines 83-107: launch the browser, open the home page, check the session.
LaunchBrowser ==
    /\ pc = "launch"
    /\ \E landed \in {mainGooglePhotosUrl, SignInUrl} :
        /\ pageUrl' = landed
        /\ IF landed # mainGooglePhotosUrl THEN
               /\ pc' = "exited"
               /\ exitCode' = 1
               /\ browser' = "closed"
               /\ exiftoolEnded' = TRUE
               /\ pending' = 0
           ELSE
               /\ pc' = "latest"
               /\ browser' = "open"
               /\ UNCHANGED <<exitCode, exiftoolEnded, pending>>
    /\ UNCHANGED <<cfgVars, lastdone, files, startLink, latestPhoto,
                   currentUrl, downloads, lastDl, saves,
                   clickedHidden>>

\* lines 109-114 and getLatestPhoto: the href of the active element, which is
\* undefined when the active element is no link.  The home page is the
\* signed-in account's, and its links carry the account selector.
GetLatestPhoto ==
    /\ pc = "latest"
    /\ \E href \in {NoUrl, Url("0", NPhotos)} :
        /\ latestPhoto' = href
        /\ IF href = NoUrl THEN Exit(1, TRUE) ELSE Continue("goto")
    /\ UNCHANGED <<cfgVars, lastdone, files, startLink, pageUrl, currentUrl,
                   downloads, lastDl, saves, clickedHidden>>

\* line 118: page.goto(clean(startLink)); the page shows the photo under the
\* URL it was asked for.
GotoStart ==
    /\ pc = "goto"
    /\ pageUrl' = clean(startLink)
    /\ Continue("first")
    /\ UNCHANGED <<cfgVars, lastdone, files, startLink, latestPhoto,
                   currentUrl, downloads, lastDl, saves,
                   clickedHidden>>

\* lines 124-132: the first photo, overwrite: true.
DownloadFirst ==
    /\ pc = "first"
    /\ downloadPhoto(TRUE, writeScrapedExif, flatDirectoryStructure, "loop")
    /\ UNCHANGED <<cfgVars, lastdone, startLink, latestPhoto, pageUrl,
                   currentUrl, saves, clickedHidden>>

\* The loop's test without canonicalization.
AtLatestRaw == pageUrl = latestPhoto

\* lines 135-141: the loop's test.
AtLatest == clean(pageUrl) = clean(latestPhoto)

LoopTest ==
    /\ pc = "loop"
    /\ currentUrl' = pageUrl
    /\ IF AtLatest THEN Continue("cleanup") ELSE Continue("click")
    /\ UNCHANGED <<cfgVars, lastdone, files, startLink, latestPhoto, pageUrl,
                   downloads, lastDl, saves, clickedHidden>>

\* lines 149-172 (ts) and line 423 (legacy): click the previous-photo arrow.
\* ts returns false when no element is visible and else clicks elements[0];
\* legacy clicks elements[0], which throws when there is none.
ClickPrevious ==
    /\ pc = "click"
    /\ \E elements \in ElementLists :
        LET isVisible == \E i \in 1..Len(elements) : elements[i]
            clicked == IF variant = "ts" THEN isVisible ELSE Len(elements) > 0
        IN  IF clicked THEN
                /\ clickedHidden' = ~elements[1]
                /\ Continue("wait")
            ELSE
                /\ Exit(1, FALSE)
                /\ UNCHANGED clickedHidden
    /\ UNCHANGED <<cfgVars, lastdone, files, startLink, latestPhoto, pageUrl,
                   currentUrl, downloads, lastDl, saves>>

\* lines 175-177: waitForURL returns once the page shows another photo; the
\* click leads to the next newer photo of the library.
WaitForURL ==
    /\ pc = "wait"
    /\ PhotoOf(pageUrl) < NPhotos
    /\ pageUrl' = Url(FormOf(pageUrl), PhotoOf(pageUrl) + 1)
    /\ pageUrl' # currentUrl
    /\ clickedHidden' = FALSE
    /\ Continue("download")
    /\ UNCHANGED <<cfgVars, lastdone, files, startLink, latestPhoto,
                   currentUrl, downloads, lastDl, saves>>

\* lines 179-185: every later photo; the call passes neither overwrite nor
\* flatDirectoryStructure, so both take their default, false.
DownloadNext ==
    /\ pc = "download"
    /\ downloadPhoto(FALSE, writeScrapedExif, FALSE, "save")
    /\ UNCHANGED <<cfgVars, lastdone, startLink, latestPhoto, pageUrl,
                   currentUrl, saves, clickedHidden>>

\* line 186: saveProgress(photoDirectory, page.url())
SaveProgress ==
    /\ pc = "save"
    /\ saveProgress(pageUrl)
    /\ saves' = saves + 1
    /\ Continue("loop")
    /\ UNCHANGED <<cfgVars, files, startLink, latestPhoto, pageUrl,
                   currentUrl, downloads, lastDl, clickedHidden>>

\* line 188: cleanup(), after which start() returns and the process ends.
Cleanup ==
    /\ pc = "cleanup"
    /\ Exit(0, TRUE)
    /\ UNCHANGED <<cfgVars, lastdone, files, startLink, latestPhoto, pageUrl,
                   currentUrl, downloads, lastDl, saves,
                   clickedHidden>>

\* The process's memory: gone when the process ends.
Fresh ==
    /\ startLink' = NoUrl
    /\ latestPhoto' = NoUrl
    /\ pageUrl' = NoUrl
    /\ currentUrl' = NoUrl
    /\ browser' = "none"
    /\ exiftoolEnded' = FALSE
    /\ exitCode' = -1
    /\ downloads' = 0
    /\ lastDl' = NoDl
    /\ saves' = 0
    /\ clickedHidden' = FALSE

\* The process is killed from outside (or the machine stops) at any point;
\* what stays is the filesystem.
Crash ==
    /\ pc \in Running
    /\ pc' = "killed"
    /\ pending' = IF pc = "save" /\ lastDl.moved THEN lastDl.photo ELSE 0
    /\ Fresh
    /\ UNCHANGED <<cfgVars, lastdone, files>>

\* saveProgress is fsP.writeFile, which opens .lastdone truncating it and
\* then writes the URL: a kill between the two leaves the file empty.
KilledInSaveProgress ==
    /\ \/ pc = "save"
       \/ pc = "start" /\ getProgressThrows /\ initialPhotoUrl # NoUrl
    /\ pc' = "killed"
    /\ pending' = IF pc = "save" /\ lastDl.moved THEN lastDl.photo ELSE 0
    /\ Fresh
    /\ lastdone' = [exists |-> TRUE, content |-> NoUrl]
    /\ UNCHANGED <<cfgVars, files>>

\* The operator starts the program again with the same command line.
Restart ==
    /\ pc \in {"exited", "killed"}
    /\ pc' = "start"
    /\ Fresh
    /\ UNCHANGED <<cfgVars, lastdone, files, pending>>

\* The first launch on an empty photo directory: .lastdone is missing or
\* empty, the seed is absent, the oldest photo or the latest one.
Init ==
    /\ variant \in {"ts", "legacy"}
    /\ flatDirectoryStructure \in BOOLEAN
    /\ writeScrapedExif \in BOOLEAN
    /\ initialPhotoUrl \in {NoUrl, Url("0", 1), Url("0", NPhotos)}
    /\ library \in Libraries
    /\ lastdone \in {[exists |-> FALSE, content |-> NoUrl],
                     [exists |-> TRUE, content |-> NoUrl]}
    /\ files = {}
    /\ pc = "start"
    /\ startLink = NoUrl
    /\ latestPhoto = NoUrl
    /\ pageUrl = NoUrl
    /\ currentUrl = NoUrl
    /\ browser = "none"
    /\ exiftoolEnded = FALSE
    /\ exitCode = -1
    /\ downloads = 0
    /\ lastDl = NoDl
    /\ saves = 0
    /\ clickedHidden = FALSE
    /\ pending = 0
    /\ probe = <<>>
    /\ result = [done |-> FALSE]

Next ==
    \/ LoadCheckpoint
    \/ LaunchBrowser
    \/ GetLatestPhoto
    \/ GotoStart
    \/ DownloadFirst
    \/ LoopTest
    \/ ClickPrevious
    \/ WaitForURL
    \/ DownloadNext
    \/ SaveProgress
    \/ Cleanup
    \/ Crash
    \/ KilledInSaveProgress
    \/ Restart

Spec == Init /\ [][Next]_vars

\* The process before its first step, on an empty photo directory.
NotStarted ==
    /\ files = {}
    /\ pc = "start"
    /\ startLink = NoUrl
    /\ latestPhoto = NoUrl
    /\ pageUrl = NoUrl
    /\ currentUrl = NoUrl
    /\ browser = "none"
    /\ exiftoolEnded = FALSE
    /\ exitCode = -1
    /\ downloads = 0
    /\ lastDl = NoDl
    /\ saves = 0
    /\ clickedHidden = FALSE
    /\ pending = 0

\* ------------------------------------------------- launches that are let run
\* One step of start().
Step ==
    \/ LoadCheckpoint
    \/ LaunchBrowser
    \/ GetLatestPhoto
    \/ GotoStart
    \/ DownloadFirst
    \/ LoopTest
    \/ ClickPrevious
    \/ WaitForURL
    \/ DownloadNext
    \/ SaveProgress
    \/ Cleanup

\* One launch, with any seed, on a photo directory whose .lastdone is
\* missing, empty or populated by hand with any photo's URL (line 70).
InitLive ==
    /\ variant \in {"ts", "legacy"}
    /\ flatDirectoryStructure \in BOOLEAN
    /\ writeScrapedExif \in BOOLEAN
    /\ initialPhotoUrl \in {NoUrl} \cup {Url(f, p) : f \in UrlForms, p \in Photos}
    /\ library \in Libraries
    /\ lastdone \in {[exists |-> FALSE, content |-> NoUrl],
                     [exists |-> TRUE, content |-> NoUrl]}
                        \cup {[exists |-> TRUE, content |-> Url(f, p)] :
                                 f \in UrlForms, p \in Photos}
    /\ NotStarted
    /\ probe = <<>>
    /\ result = [done |-> FALSE]

\* The event loop runs every continuation that is ready, and every browser
\* wait completes: a launch that can take a step takes one.
LiveSpec == InitLive /\ [][Step]_vars /\ WF_vars(Step)

\* ------------------------------------------- date resolution on its own
\* lines 228-259 of downloadPhoto applied to one asset and its page.
\* What exiftool.read can report as DateTimeOriginal.
MetaCases ==
    {NoMeta} \cup {[present |-> TRUE, year |-> y, month |-> m] :
                      y \in {1970, 2020, 2023}, m \in {1, 5, 12}}
\* What the page's markup can hold: no aria-label of the pattern, one whose
\* last segment new Date() cannot parse, one whose last segment is a date.
HtmlCases ==
    {NoMatch, [matched |-> TRUE, valid |-> FALSE, year |-> 0, month |-> 0]}
        \cup {[matched |-> TRUE, valid |-> TRUE, year |-> y, month |-> m] :
                 y \in {1970, 2021}, m \in {1, 3}}

InitDate ==
    /\ variant \in {"ts", "legacy"}
    /\ flatDirectoryStructure = FALSE
    /\ writeScrapedExif = FALSE
    /\ initialPhotoUrl = NoUrl
    /\ library = [p \in Photos |-> Dated]
    /\ lastdone = [exists |-> FALSE, content |-> NoUrl]
    /\ NotStarted
    /\ probe \in {[name |-> AJpg, meta |-> m, html |-> h] :
                     m \in MetaCases, h \in HtmlCases}
    /\ result = [done |-> FALSE]

\* year and month as downloadPhoto leaves them for destDir, and whether the
\* page was requested for the fallback.
ResolveDate ==
    /\ ~result.done
    /\ result' = [done |-> TRUE,
                  year |-> ResolveYear(probe),
                  month |-> ResolveMonth(probe),
                  consulted |-> UsesHtml(probe)]
    /\ UNCHANGED <<variant, flatDirectoryStructure, writeScrapedExif,
                   initialPhotoUrl, library, probe, lastdone, files, pc,
                   startLink, latestPhoto, pageUrl, currentUrl, browser,
                   exiftoolEnded, exitCode, downloads, lastDl, saves,
                   clickedHidden, pending>>

SpecDate == InitDate /\ [][ResolveDate]_vars

\* ------------------------------------------------------- clean on its own
\* Paths a photo's page is reached under, after the host and the
\* account-selector segment.
PhotoPaths ==
    {<<"photo", PhotoIds[i]>> : i \in 1..Len(PhotoIds)}
        \cup {<<"album", "a1", "photo", PhotoIds[i]>> : i \in 1..Len(PhotoIds)}

InitClean ==
    /\ variant \in {"ts", "legacy"}
    /\ flatDirectoryStructure = FALSE
    /\ writeScrapedExif = FALSE
    /\ initialPhotoUrl = NoUrl
    /\ library = [p \in Photos |-> Dated]
    /\ lastdone = [exists |-> FALSE, content |-> NoUrl]
    /\ NotStarted
    /\ probe \in {[with |-> <<"u", d>> \o path, without |-> path] :
                     d \in DigitStrings, path \in PhotoPaths}
    /\ result = [done |-> FALSE]

\* lines 135-141 with the page at one of the two URLs and the latest photo
\* at the other: clean() of both, as the loop's test computes them.
CleanBoth ==
    /\ ~result.done
    /\ pageUrl' = probe.with
    /\ latestPhoto' = probe.without
    /\ result' = [done |-> TRUE,
                  with |-> clean(probe.with),
                  without |-> clean(probe.without)]
    /\ UNCHANGED <<variant, flatDirectoryStructure, writeScrapedExif,
                   initialPhotoUrl, library, probe, lastdone, files, pc,
                   startLink, currentUrl, browser, exiftoolEnded, exitCode,
                   downloads, lastDl, saves, clickedHidden, pending>>

SpecClean == InitClean /\ [][CleanBoth]_vars

\* ================================================================ claims

\* ---------------------------------------------------------------------
\* C1: the checkpoint is written with a photo's URL only after that
\* photo's asset has been moved to its destination: every saveProgress of
\* the loop follows a successful move of the photo the page shows.
C1_SaveOnlyAfterPlacement ==
    [][(pc = "save" /\ pc' = "loop")
           => (lastDl.moved /\ lastDl.photo = PhotoOf(pageUrl))]_vars

\* ---------------------------------------------------------------------
\* C2: after a kill between the placement of photo N and its checkpoint
\* save, the next launch reprocesses exactly photo N, as its first photo
\* and with overwrite=true, and the destination holds no photo twice.
NoDuplicates ==
    \A p \in Photos : Cardinality({f \in files : f.photo = p}) <= 1

C2_RestartReprocessesOnlyPending ==
    (pending # 0 /\ downloads > 0)
        => /\ downloads = 1
           /\ lastDl.photo = pending
           /\ lastDl.overwrite
           /\ NoDuplicates

\* ---------------------------------------------------------------------
\* C3: whenever .lastdone is present and non-empty, the photo it
\* identifies has been placed in the destination tree.
C3_CheckpointIsPlaced ==
    (lastdone.exists /\ lastdone.content # NoUrl)
        => \E f \in files : f.photo = PhotoOf(lastdone.content)

\* ---------------------------------------------------------------------
\* C4: a placement with overwrite=false whose destination exists leaves
\* the existing file intact and puts the asset under another name in the
\* same directory.
C4_CollisionRenames ==
    (lastDl.collided /\ pc # "exited")
        => /\ lastDl.moved
           /\ lastDl.replaced = 0
           /\ lastDl.at.dir = lastDl.path.dir
           /\ lastDl.at.name # lastDl.path.name

\* ---------------------------------------------------------------------
\* C5 as claimed: a launch whose checkpoint already identifies the latest
\* photo performs no download.
C5_NoDownloadAtLatest ==
    (latestPhoto # NoUrl /\ clean(startLink) = clean(latestPhoto))
        => downloads = 0

\* C5 as amended: a launch whose checkpoint already identifies the latest
\* photo downloads that one photo again, with overwrite=true, and nothing
\* else; it never clicks the navigation control and never rewrites the
\* checkpoint; it ends at AtLatest with exit code 0 unless that one
\* download fails fatally.
C5_OneDownloadAtLatest ==
    (latestPhoto # NoUrl /\ clean(startLink) = clean(latestPhoto))
        => /\ downloads <= 1
           /\ saves = 0
           /\ lastdone.content = startLink
           /\ pc \notin {"click", "wait", "download", "save"}
           /\ downloads = 1 =>
                  /\ lastDl.photo = PhotoOf(latestPhoto)
                  /\ lastDl.overwrite
           /\ pc \in {"loop", "cleanup"} => downloads = 1
           /\ pc = "exited" =>
                  \/ exitCode = 0 /\ downloads = 1 /\ AtLatest
                  \/ exitCode = 1 /\ downloads = 1 /\ ~lastDl.moved

\* A later launch, its checkpoint written by an earlier one, finds itself
\* at the latest photo and has ended normally after its one download.
C5_Witness ==
    /\ pc = "exited"
    /\ exitCode = 0
    /\ startLink # initialPhotoUrl
    /\ startLink # latestPhoto
    /\ clean(startLink) = clean(latestPhoto)
    /\ downloads = 1
    /\ lastDl.moved
    /\ lastDl.replaced = lastDl.photo

\* ---------------------------------------------------------------------
\* C6: on every exit after the browser session was opened, the browser
\* session and the metadata tool are both closed.
C6_ClosedOnEveryExit ==
    (pc = "exited" /\ browser # "none")
        => (browser = "closed" /\ exiftoolEnded)

\* ---------------------------------------------------------------------
\* C7: every download of a launch computes destinationRoot/filename in
\* flat mode and destinationRoot/year/month/filename otherwise.
C7_FlatModeEveryPhoto ==
    downloads > 0 =>
        LET prof == library[lastDl.photo]
        IN  /\ lastDl.path.name = prof.name
            /\ lastDl.path.dir =
                   IF flatDirectoryStructure THEN <<>>
                   ELSE <<ResolveYear(prof), ResolveMonth(prof)>>

\* ---------------------------------------------------------------------
\* C8: a launch seeded with U0 creates the checkpoint with U0, downloads
\* the photo at U0 with overwrite=true, and when it exits normally the
\* checkpoint identifies the last photo that was placed.
C8_EndToEnd ==
    (initialPhotoUrl # NoUrl /\ startLink = initialPhotoUrl)
        => /\ lastdone.exists
           /\ saves = 0 => lastdone.content = initialPhotoUrl
           /\ downloads = 1 =>
                  /\ lastDl.photo = PhotoOf(initialPhotoUrl)
                  /\ lastDl.overwrite
           /\ (pc = "exited" /\ exitCode = 0) =>
                  /\ lastDl.moved
                  /\ lastDl.photo = PhotoOf(lastdone.content)

\* ---------------------------------------------------------------------
\* C9: the process ends with exit code 0 only from the end of the loop,
\* where the canonicalized current URL equals the canonicalized latest
\* photo; every other end of the process has exit code 1.
C9_ExitCodes ==
    [][(pc # "exited" /\ pc' = "exited")
           => /\ exitCode' \in {0, 1}
              /\ exitCode' = 0 <=>
                     /\ pc = "cleanup"
                     /\ latestPhoto # NoUrl
                     /\ clean(currentUrl) = clean(latestPhoto)
                     /\ currentUrl = pageUrl]_vars

\* A normal end where the two URLs differ before canonicalization, after at
\* least one photo was reached by navigating.
C9_Witness ==
    /\ pc = "exited"
    /\ exitCode = 0
    /\ currentUrl # latestPhoto
    /\ clean(currentUrl) = clean(latestPhoto)
    /\ saves > 0

\* ---------------------------------------------------------------------
\* C10: every placement after a launch's first is performed with
\* overwrite=false and replaces no file of the destination tree.
C10_OnlyFirstOverwrites ==
    downloads > 1 => (~lastDl.overwrite /\ lastDl.replaced = 0)

\* ---------------------------------------------------------------------
\* C11: a download that completes without a retrievable path ends the
\* process with exit code 1, and for that photo no metadata is read, the
\* asset is not placed and the checkpoint is not written: the checkpoint
\* writes of the launch are those of the photos before it.
C11_NoPathIsFatal ==
    lastDl.failure = "nopath"
        => /\ pc = "exited"
           /\ exitCode = 1
           /\ ~lastDl.metaRead
           /\ ~lastDl.exifWrite
           /\ ~lastDl.moved
           /\ saves = IF downloads = 1 THEN 0 ELSE downloads - 2
           /\ lastdone.content # NoUrl
           /\ PhotoOf(lastdone.content) = lastDl.photo => downloads = 1

\* The path is missing for a photo reached by navigating, after the
\* launch's first photo was placed.
C11_Witness ==
    /\ lastDl.failure = "nopath"
    /\ downloads = 2
    /\ pc = "exited"
    /\ exitCode = 1
    /\ PhotoOf(lastdone.content) # lastDl.photo

\* ---------------------------------------------------------------------
\* C12: with --write-scraped-exif, a failed write of the scraped date into
\* the asset is not fatal: the asset is still placed and the launch goes on
\* to the checkpoint write.
C12_ExifWriteFailureNotFatal ==
    lastDl.failure = "exifwrite" => (lastDl.moved /\ pc # "exited")

\* ---------------------------------------------------------------------
\* C13: the resolved date is the embedded date when that is present and
\* not (1970, 1); the page is consulted only when the metadata yields
\* (1970, 1); and when neither the metadata nor the page yields a valid
\* date (no matching markup, or matched text that is no date) the resolved
\* date is exactly (1970, 1).
C13_DateResolution ==
    result.done =>
        LET meta == probe.meta
            html == probe.html
            metaValid == meta.present /\ ~(meta.year = 1970 /\ meta.month = 1)
            htmlValid == html.matched /\ html.valid
        IN  /\ metaValid => (result.year = meta.year /\ result.month = meta.month)
            /\ result.consulted => ~metaValid
            /\ (~metaValid /\ ~htmlValid)
                   => (result.year = 1970 /\ result.month = 1)

\* ---------------------------------------------------------------------
\* C14: with the checkpoint file missing or empty, a launch without a seed
\* URL ends with exit code 1 before the browser is launched and leaves the
\* file as it was, missing or empty; a launch with a seed URL creates the
\* checkpoint with exactly that URL, starts from it, and the first page it
\* opens is that photo's.
C14_MissingCheckpoint ==
    [][/\ (/\ pc = "start"
           /\ pc' \notin {"start", "killed"}
           /\ (~lastdone.exists \/ lastdone.content = NoUrl))
          => IF initialPhotoUrl = NoUrl
             THEN /\ pc' = "exited"
                  /\ exitCode' = 1
                  /\ browser' = "none"
                  /\ lastdone' = lastdone
             ELSE /\ pc' = "launch"
                  /\ lastdone' = [exists |-> TRUE, content |-> initialPhotoUrl]
                  /\ startLink' = initialPhotoUrl
       /\ (pc = "goto" /\ pc' = "first" /\ startLink = initialPhotoUrl)
          => PhotoOf(pageUrl') = PhotoOf(initialPhotoUrl)]_vars

\* A launch without a seed found the checkpoint file empty and has ended
\* with exit code 1, no browser launched, the file still empty.
C14_Witness ==
    /\ pc = "exited"
    /\ exitCode = 1
    /\ initialPhotoUrl = NoUrl
    /\ browser = "none"
    /\ lastdone = [exists |-> TRUE, content |-> NoUrl]

\* ---------------------------------------------------------------------
\* C16 (the click): whenever the previous-photo control is clicked, the
\* element clicked is itself visible.
C16_ClicksOnlyVisible ==
    pc = "wait" => ~clickedHidden

\* ---------------------------------------------------------------------
\* C17: whenever the navigation control is invoked to leave the photo the
\* page shows, the checkpoint file already identifies that photo: its
\* content and the page's URL are equal under clean().
C17_CheckpointBeforeAdvance ==
    pc = "click"
        => /\ lastdone.exists
           /\ lastdone.content # NoUrl
           /\ clean(lastdone.content) = clean(pageUrl)

\* The control is about to be invoked on a photo that was reached by
\* navigating and saved by this launch.
C17_Witness ==
    /\ pc = "click"
    /\ saves > 0
    /\ downloads > 1
    /\ lastdone.content = pageUrl
    /\ lastdone.content # startLink

\* ---------------------------------------------------------------------
\* C15: a photo URL with a user-index segment /u/<digits>/ and the same
\* URL without it have equal clean() results, and the loop's test takes a
\* page at the one and a latest photo at the other for the same photo.
C15_CleanIgnoresUserIndex ==
    result.done => (result.with = result.without /\ AtLatest)

\* The two URLs differ, here by a user index of more than one digit, and
\* clean() took the segment out of the one that has it.
C15_Witness ==
    /\ result.done
    /\ probe.with[2] = "12"
    /\ probe.with # probe.without
    /\ result.with = probe.without
    /\ Len(probe.without) = 4

\* ---------------------------------------------------------------------
\* C18: with a finite library, every click leading to a newer photo and
\* every browser wait completing, every launch ends, normally or with a
\* fatal exit; and each download of a launch is of a photo newer than the
\* download before it, so no photo is visited twice.
C18_Termination ==
    /\ [](pc \in Running => <>(pc = "exited"))
    /\ [][(downloads > 0 /\ downloads' > downloads)
              => lastDl'.photo > lastDl.photo]_vars

\* A launch walked from its first photo over two clicks to the latest
\* photo and ended normally.
C18_Witness ==
    /\ pc = "exited"
    /\ exitCode = 0
    /\ downloads = 3
    /\ saves = 2

\* ---------------------------------------------------------------------
\* C19: once the checkpoint file is non-empty it is never deleted or
\* emptied, and every write moves it to a photo that is not older than the
\* photo it identified before.
C19_CheckpointMonotone ==
    [][(lastdone.exists /\ lastdone.content # NoUrl)
           => /\ lastdone'.exists
              /\ lastdone'.content # NoUrl
              /\ PhotoOf(lastdone'.content) >= PhotoOf(lastdone.content)]_vars

====
